---------------------------- MODULE Spec2Model ----------------------------
(***************************************************************************)
(* Model of the AI-firewall proxy: the sanitization pipeline               *)
(* (backend/utils/sanitizer.py), group resolution                          *)
(* (backend/policy_controller.py), the request entry points                *)
(* (backend/main.py) and the log table (backend/observability.py).         *)
(*                                                                         *)
(* Text is a sequence of one-character strings.  A regular expression is   *)
(* modelled by the fragment the policies below use: literal characters,    *)
(* the wildcard ".", and an unbalanced "(" which makes re.compile raise    *)
(* re.error.  Replacement templates contain no backslash, so re's template *)
(* expansion leaves them as they are written.                              *)
(***************************************************************************)
EXTENDS Integers, Sequences, FiniteSets, TLC

\* ------------------------------------------------------------------------
\* Bounds of the model
\* ------------------------------------------------------------------------
MaxBodyLen == 1        \* longest prompt a request body carries (Spec)
MaxMembers == 2        \* longest policy_ids list of a stored group (Spec)
MaxPromptLen == 3      \* longest prompt given to the engine (SpecEngine)
MaxPolicies == 2       \* longest resolved policy list (SpecEngine)

\* ------------------------------------------------------------------------
\* Text helpers: str.lower(), str.strip(), "x in y"
\* ------------------------------------------------------------------------
\* Python's None where a text is expected
None == <<"None">>

UpperCase == <<"A","B","C","D","E","F","G","H","I","J","K","L","M",
               "N","O","P","Q","R","S","T","U","V","W","X","Y","Z">>
LowerCase == <<"a","b","c","d","e","f","g","h","i","j","k","l","m",
               "n","o","p","q","r","s","t","u","v","w","x","y","z">>

LowerChar(c) ==
    IF \E i \in 1..Len(UpperCase) : UpperCase[i] = c
    THEN LowerCase[CHOOSE i \in 1..Len(UpperCase) : UpperCase[i] = c]
    ELSE c

Lower(s) == [i \in 1..Len(s) |-> LowerChar(s[i])]

IsSpace(c) == c \in {" ", "\n", "\t"}

RECURSIVE LStrip(_)
LStrip(s) == IF s # <<>> /\ IsSpace(Head(s)) THEN LStrip(Tail(s)) ELSE s

RECURSIVE RStrip(_)
RStrip(s) ==
    IF s # <<>> /\ IsSpace(s[Len(s)]) THEN RStrip(SubSeq(s, 1, Len(s) - 1)) ELSE s

Strip(s) == RStrip(LStrip(s))

\* Python's "sub in s" for strings
Contains(sub, s) ==
    \E i \in 1..(Len(s) - Len(sub) + 1) : SubSeq(s, i, i + Len(sub) - 1) = sub

\* All sequences over S of length at most n
SeqsUpTo(S, n) == UNION {[1..k -> S] : k \in 0..n}

\* ------------------------------------------------------------------------
\* The regex engine: re.compile(p, re.IGNORECASE), finditer, sub
\* ------------------------------------------------------------------------
\* re.compile raises re.error on an unbalanced "("
Compiles(p) == \A i \in 1..Len(p) : p[i] # "("

\* one pattern character against one text character, under re.IGNORECASE
CharMatches(pc, c) ==
    \/ pc = "." /\ c # "\n"
    \/ pc # "." /\ LowerChar(pc) = LowerChar(c)

\* the pattern matches the text starting at (1-based) position i
MatchAt(p, s, i) ==
    /\ i + Len(p) - 1 <= Len(s)
    /\ \A k \in 1..Len(p) : CharMatches(p[k], s[i + k - 1])

\* the scan of finditer: leftmost, non-overlapping matches from position pos;
\* an empty match is followed by a step of one character
RECURSIVE FindFrom(_, _, _)
FindFrom(p, s, pos) ==
    IF pos > Len(s) + 1 THEN <<>>
    ELSE IF MatchAt(p, s, pos)
         THEN <<[match |-> SubSeq(s, pos, pos + Len(p) - 1),
                 start |-> pos - 1,
                 end   |-> pos - 1 + Len(p)]>>
              \o FindFrom(p, s, IF Len(p) = 0 THEN pos + 1 ELSE pos + Len(p))
         ELSE FindFrom(p, s, pos + 1)

\* a plausible slip: pattern.match() instead of pattern.finditer()
FindIterAnchored(p, s) ==
    IF MatchAt(p, s, 1)
    THEN <<[match |-> SubSeq(s, 1, Len(p)), start |-> 0, end |-> Len(p)]>>
    ELSE <<>>

\* list(pattern.finditer(s)): positions are 0-based, end exclusive
FindIter(p, s) == FindFrom(p, s, 1)

\* the scan of sub: every match of finditer is replaced by repl
RECURSIVE SubFrom(_, _, _, _)
SubFrom(p, repl, s, pos) ==
    IF pos > Len(s) + 1 THEN <<>>
    ELSE IF MatchAt(p, s, pos)
         THEN IF Len(p) = 0
              THEN repl \o (IF pos <= Len(s) THEN <<s[pos]>> ELSE <<>>)
                        \o SubFrom(p, repl, s, pos + 1)
              ELSE repl \o SubFrom(p, repl, s, pos + Len(p))
         ELSE (IF pos <= Len(s) THEN <<s[pos]>> ELSE <<>>)
              \o SubFrom(p, repl, s, pos + 1)

\* a plausible slip: pattern.sub(repl, s, count=1)
SubFirst(p, repl, s) ==
    IF \E i \in 1..(Len(s) + 1) : MatchAt(p, s, i)
    THEN LET i == CHOOSE j \in 1..(Len(s) + 1) :
                      /\ MatchAt(p, s, j)
                      /\ \A k \in 1..(j - 1) : ~MatchAt(p, s, k)
         IN SubSeq(s, 1, i - 1) \o repl \o SubSeq(s, i + Len(p), Len(s))
    ELSE s

\* pattern.sub(repl, s)
Sub(p, repl, s) == SubFrom(p, repl, s, 1)


\* ------------------------------------------------------------------------
\* Fixed strings of the program
\* ------------------------------------------------------------------------
SAFE == <<"s","a","f","e">>
MALICIOUS == <<"m","a","l","i","c","i","o","u","s">>

KwBlock == <<"b","l","o","c","k">>
KwReject == <<"r","e","j","e","c","t">>
KwDeny == <<"d","e","n","y">>
KwPrevent == <<"p","r","e","v","e","n","t">>

\* ------------------------------------------------------------------------
\* PromptSanitizationAgent.process, step 1: intent classification
\* ------------------------------------------------------------------------
\* a plausible slip: the label is lower-cased but not stripped
IntentUnstripped(label) ==
    IF Lower(label) \in {SAFE, MALICIOUS} THEN Lower(label) ELSE SAFE

\* a plausible slip: an unrecognised label is treated as hostile
IntentFailClosed(label) ==
    IF Lower(Strip(label)) = SAFE THEN SAFE ELSE MALICIOUS

\* a plausible slip: the normalised label is recorded without the default
IntentRaw(label) == Lower(Strip(label))

\* intent = classifier(...).strip().lower(); anything else becomes "safe"
Intent(label) ==
    IF Lower(Strip(label)) \in {SAFE, MALICIOUS} THEN Lower(Strip(label)) ELSE SAFE

\* the decision returned for a malicious intent
IntentBlocked(prompt, intent) ==
    [status |-> "blocked", action |-> "blocked", intent |-> intent,
     original_prompt |-> prompt, redacted_prompt |-> None,
     message |-> <<"Content blocked due to malicious intent">>,
     evidence |-> [reason |-> "llm_classified_malicious",
                   violations |-> <<>>,
                   categories |-> <<"malicious_intent">>],
     applied_policies |-> <<>>]

\* the decision returned when get_group_with_policies gives no group
NoGroupBlocked(prompt, intent) ==
    [status |-> "blocked", action |-> "blocked", intent |-> intent,
     original_prompt |-> prompt, redacted_prompt |-> None,
     message |-> <<"No matching security group found">>,
     evidence |-> [reason |-> "no_group_found",
                   violations |-> <<>>,
                   categories |-> <<"configuration_error">>],
     applied_policies |-> <<>>]

\* ------------------------------------------------------------------------
\* process, lines 96-122: splitting the group's policies
\* ------------------------------------------------------------------------
\* a plausible slip: the active flag is not looked at
IsActiveAlways(p) == TRUE

\* "if not p.get('active', True): continue"
IsActive(p) == p.active

\* a plausible slip: only the name is looked at, the elif on the replacement
\* text is left out
IsBlockPolicyByNameOnly(p) ==
    \E kw \in {KwBlock, KwReject, KwDeny, KwPrevent} : Contains(kw, Lower(p.name))

\* the name or the replacement marks a policy as blocking
IsBlockPolicy(p) ==
    \/ \E kw \in {KwBlock, KwReject, KwDeny, KwPrevent} : Contains(kw, Lower(p.name))
    \/ \E kw \in {KwBlock, KwReject, KwDeny} : Contains(kw, Lower(p.replacement))

\* the policies that reach either list: active, and the pattern compiles
IsEnforced(p) == IsActive(p) /\ Compiles(p.pattern)

IsEnforcedBlock(p) == IsEnforced(p) /\ IsBlockPolicy(p)
IsEnforcedRedact(p) == IsEnforced(p) /\ ~IsBlockPolicy(p)

BlockPolicies(policies) == SelectSeq(policies, IsEnforcedBlock)
\* a plausible slip: the except clause leaves the loop, so the policies after
\* one whose pattern does not compile are never listed
RedactPoliciesUntilBadPattern(policies) ==
    LET bad == {i \in 1..Len(policies) :
                   IsActive(policies[i]) /\ ~Compiles(policies[i].pattern)}
        stop == IF bad = {} THEN Len(policies) + 1
                ELSE CHOOSE i \in bad : \A j \in bad : i <= j
    IN SelectSeq(SubSeq(policies, 1, stop - 1), IsEnforcedRedact)

RedactPolicies(policies) == SelectSeq(policies, IsEnforcedRedact)

\* ------------------------------------------------------------------------
\* process, lines 124-159: block policies first
\* ------------------------------------------------------------------------
Violations(policy, matches, action) ==
    [i \in 1..Len(matches) |->
        [pattern |-> policy.pattern, match |-> matches[i].match,
         policy |-> policy.name, action |-> action,
         position |-> <<matches[i].start, matches[i].end>>]]

Applied(policy, action) ==
    [name |-> policy.name, pattern |-> policy.pattern,
     replacement |-> policy.replacement, action |-> action]

\* a plausible slip: only the first block policy is tried
FirstBlockingOnlyHead(bps, prompt) ==
    IF bps # <<>> /\ FindIter(bps[1].pattern, prompt) # <<>> THEN 1 ELSE 0

\* a plausible slip: the loop keeps going and the last matching policy wins
FirstBlockingLast(bps, prompt) ==
    IF \E i \in 1..Len(bps) : FindIter(bps[i].pattern, prompt) # <<>>
    THEN CHOOSE i \in 1..Len(bps) :
            /\ FindIter(bps[i].pattern, prompt) # <<>>
            /\ \A j \in (i + 1)..Len(bps) : FindIter(bps[j].pattern, prompt) = <<>>
    ELSE 0

\* index of the first block policy with a match in the prompt, 0 if none
FirstBlocking(bps, prompt) ==
    IF \E i \in 1..Len(bps) : FindIter(bps[i].pattern, prompt) # <<>>
    THEN CHOOSE i \in 1..Len(bps) :
            /\ FindIter(bps[i].pattern, prompt) # <<>>
            /\ \A j \in 1..(i - 1) : FindIter(bps[j].pattern, prompt) = <<>>
    ELSE 0

\* a plausible slip: a policy-blocked decision hands the prompt back
PolicyBlockedKeepsPrompt(prompt, intent, group, policy) ==
    [status |-> "blocked", action |-> "blocked", intent |-> intent,
     group |-> [id |-> group.id, name |-> group.name],
     original_prompt |-> prompt, redacted_prompt |-> prompt,
     message |-> <<"Content blocked by policy: ", policy.name>>,
     evidence |-> [reason |-> "policy_violation_blocked",
                   violations |-> Violations(policy, FindIter(policy.pattern, prompt), "block"),
                   categories |-> <<"policy_violation">>],
     applied_policies |-> <<Applied(policy, "block")>>]

PolicyBlocked(prompt, intent, group, policy) ==
    [status |-> "blocked", action |-> "blocked", intent |-> intent,
     group |-> [id |-> group.id, name |-> group.name],
     original_prompt |-> prompt, redacted_prompt |-> None,
     message |-> <<"Content blocked by policy: ", policy.name>>,
     evidence |-> [reason |-> "policy_violation_blocked",
                   violations |-> Violations(policy, FindIter(policy.pattern, prompt), "block"),
                   categories |-> <<"policy_violation">>],
     applied_policies |-> <<Applied(policy, "block")>>]

\* ------------------------------------------------------------------------
\* process, lines 161-186: redact policies, one after the other
\* ------------------------------------------------------------------------
\* a plausible slip: pattern.finditer(prompt), the original, instead of
\* pattern.finditer(redacted)
RECURSIVE RedactFromOriginal(_, _, _, _)
RedactFromOriginal(rps, i, acc, prompt) ==
    IF i > Len(rps) THEN acc
    ELSE LET policy == rps[i]
             matches == FindIter(policy.pattern, prompt)
         IN IF matches # <<>>
            THEN RedactFromOriginal(rps, i + 1,
                    [redacted |-> Sub(policy.pattern, policy.replacement, acc.redacted),
                     redactions_made |-> TRUE,
                     violations |-> acc.violations \o Violations(policy, matches, "redact"),
                     applied_policies |-> Append(acc.applied_policies, Applied(policy, "redact"))],
                    prompt)
            ELSE RedactFromOriginal(rps, i + 1, acc, prompt)

RedactLoopOnOriginal(rps, i, acc) == RedactFromOriginal(rps, i, acc, acc.redacted)

\* the loop over redact_policies from index i, on the working state acc
RECURSIVE RedactLoop(_, _, _)
RedactLoop(rps, i, acc) ==
    IF i > Len(rps) THEN acc
    ELSE LET policy == rps[i]
             matches == FindIter(policy.pattern, acc.redacted)
         IN IF matches # <<>>
            THEN RedactLoop(rps, i + 1,
                    [redacted |-> Sub(policy.pattern, policy.replacement, acc.redacted),
                     redactions_made |-> TRUE,
                     violations |-> acc.violations \o Violations(policy, matches, "redact"),
                     applied_policies |-> Append(acc.applied_policies, Applied(policy, "redact"))])
            ELSE RedactLoop(rps, i + 1, acc)

\* ------------------------------------------------------------------------
\* process, lines 188-221: the status of a run no block policy stopped
\* ------------------------------------------------------------------------
Redacted(prompt, intent, group, acc) ==
    [status |-> "redacted", action |-> "redacted", intent |-> intent,
     group |-> [id |-> group.id, name |-> group.name],
     original_prompt |-> prompt, redacted_prompt |-> acc.redacted,
     message |-> <<"Content sanitized by ", Len(acc.applied_policies), " policies">>,
     evidence |-> [reason |-> "policy_violation_redacted",
                   violations |-> acc.violations,
                   categories |-> <<"sensitive_content">>],
     applied_policies |-> acc.applied_policies]

Allowed(prompt, intent, group, acc) ==
    [status |-> "allowed", action |-> "allowed", intent |-> intent,
     group |-> [id |-> group.id, name |-> group.name],
     original_prompt |-> prompt, redacted_prompt |-> acc.redacted,
     message |-> <<"Content approved - no policy violations detected">>,
     evidence |-> [reason |-> "no_policy_violations",
                   violations |-> <<>>,
                   categories |-> <<>>],
     applied_policies |-> <<>>]

\* a plausible slip: "if redacted:" (the text) instead of "if redactions_made:"
FinalStatusByText(prompt, intent, group, acc) ==
    IF acc.redacted # <<>>
    THEN Redacted(prompt, intent, group, acc)
    ELSE Allowed(prompt, intent, group, acc)

FinalStatus(prompt, intent, group, acc) ==
    IF acc.redactions_made
    THEN Redacted(prompt, intent, group, acc)
    ELSE Allowed(prompt, intent, group, acc)

\* ------------------------------------------------------------------------
\* process, lines 96-221: the decision for a safe prompt and a resolved group
\* ------------------------------------------------------------------------
ApplyPolicies(prompt, intent, group) ==
    LET bps == BlockPolicies(group.policies)
        rps == RedactPolicies(group.policies)
        b   == FirstBlocking(bps, prompt)
    IN IF b # 0
       THEN PolicyBlocked(prompt, intent, group, bps[b])
       ELSE FinalStatus(prompt, intent, group,
                RedactLoop(rps, 1,
                    [redacted |-> prompt, redactions_made |-> FALSE,
                     violations |-> <<>>, applied_policies |-> <<>>]))


\* ------------------------------------------------------------------------
\* The policy store (MongoDB collections "policies" and "groups")
\* ------------------------------------------------------------------------
\* Ids are opaque strings; "" stands for an absent or empty id.  ObjectId(s)
\* raises InvalidId unless s is a well-formed id string.
GroupIds == {"g1", "g2"}
PolicyIds == {"p1", "p2"}
MalformedIds == {"zz"}

ObjectIdValid(s) == s \notin MalformedIds \cup {""}

NameDeny == <<"D","e","n","y">>
NameMask == <<"m","a","s","k">>
NameHr == <<"H","r">>

\* the policy documents a stored policy may hold (Spec)
StoredDocs ==
    { [name |-> NameDeny, pattern |-> <<"a">>, replacement |-> <<>>, active |-> TRUE],
      [name |-> NameMask, pattern |-> <<"b">>, replacement |-> <<"#">>, active |-> TRUE],
      [name |-> NameDeny, pattern |-> <<"b">>, replacement |-> <<>>, active |-> FALSE] }

\* the stores the service may find when it starts
InitialPolicies == UNION {[S -> StoredDocs] : S \in SUBSET PolicyIds}
InitialGroups ==
    {<<>>} \cup
    { <<[_id |-> "g1", name |-> NameHr, policy_ids |-> ids]>> :
        ids \in SeqsUpTo(PolicyIds \cup MalformedIds, MaxMembers) }

\* ------------------------------------------------------------------------
\* Inputs of a request
\* ------------------------------------------------------------------------
Clients == {"c1"}
Endpoints == {"sanitize", "chat"}
Absent == <<"Absent">>            \* a key the JSON body does not carry
BodyPrompts == SeqsUpTo({"a", "b"}, MaxBodyLen) \cup {Absent}
BodyPayloads == {Absent, <<"a">>}
BodyGroupIds == {"", "g1", "g2", "zz"}
BodyGroupNames == {None, <<"h","r">>, <<"h">>, <<"h",".">>, <<"(">>}
\* what the classification oracle may answer
OracleLabels ==
    { SAFE,
      <<" ","M","a","l","i","c","i","o","u","s","\n">>,
      <<"u","n","s","u","r","e">> }

\* the call of the classification oracle raises instead of answering
OracleError == <<"OracleError">>
OracleOutcomes == OracleLabels \cup {OracleError}

\* truthiness of an optional text
Truthy(x) == x # None /\ x # Absent /\ x # <<>>

VARIABLES
    policies_collection,   \* policy id -> policy document
    groups_collection,     \* group documents, in insertion order
    firewall_logs,         \* rows of the firewall_logs table
    requests,              \* per client: the request being served
    engine,                \* a run of the policy engine on given inputs (SpecEngine)
    admin,                 \* the store operations made so far (SpecStore)
    sink                   \* the last call of process_sanitize_request (SpecSink)

vars == <<policies_collection, groups_collection, firewall_logs, requests, engine,
          admin, sink>>

NoDecision == [status |-> "none"]
NoGroupDoc == [_id |-> "", name |-> None, policy_ids |-> <<>>]

IdleRequest ==
    [pc |-> "idle", endpoint |-> "none", prompt |-> None,
     group_id |-> "", group_name |-> None,
     label |-> None, intent |-> None,
     doc |-> NoGroupDoc, idx |-> 0, policies |-> <<>>,
     result |-> NoDecision, error |-> "none", llm_prompt |-> None,
     oracle_calls |-> 0, store_reads |-> 0, llm_calls |-> 0]

\* no store operation made; per client, the resolutions an atomic read of the
\* store would have given since its run began
AdminIdle == [ops |-> 0, issued |-> {}, seen |-> [c \in Clients |-> {}]]

SinkIdle == [pc |-> "idle", payload |-> <<>>, agent_id |-> "None",
             result |-> [action |-> "none"], error |-> "none"]

EngineIdle == [pc |-> "off", prompt |-> None, group |-> [id |-> "", name |-> None, policies |-> <<>>],
               first |-> NoDecision, second |-> NoDecision]

\* ------------------------------------------------------------------------
\* The end of a handler: main.py sanitize (131-132) and chat (142-157)
\* ------------------------------------------------------------------------
\* the handler hands the decision back; /chat streams unless it is blocked
\* a plausible slip: the stream of /chat is fed the prompt of the request
RespondStreamsOriginal(r, decision) ==
    IF r.endpoint = "chat" /\ decision.status # "blocked"
    THEN [r EXCEPT !.pc = "streaming", !.result = decision,
                   !.llm_prompt = r.prompt]
    ELSE [r EXCEPT !.pc = "returned", !.result = decision]

Respond(r, decision) ==
    IF r.endpoint = "chat" /\ decision.status # "blocked"
    THEN [r EXCEPT !.pc = "streaming", !.result = decision,
                   !.llm_prompt = decision.redacted_prompt]
    ELSE [r EXCEPT !.pc = "returned", !.result = decision]

\* an exception leaves the handler: HTTP 500
Raise(r, exc) == [r EXCEPT !.pc = "failed", !.error = exc]

\* ------------------------------------------------------------------------
\* get_group_with_policies (policy_controller.py 117-148)
\* ------------------------------------------------------------------------
\* {"name": {"$regex": "^<name>$", "$options": "i"}} against a stored name
NameMatches(q, name) == Len(q) = Len(name) /\ MatchAt(q, name, 1)

\* the query of find_one on the groups collection
GroupMatches(r, d) ==
    IF r.group_id # "" THEN d._id = r.group_id ELSE NameMatches(r.group_name, d.name)

\* lines 131-148, from policy index r.idx up to the next awaited read:
\* the end of the list gives the group to process, which then runs to its end
Expand(r) ==
    IF r.idx > Len(r.doc.policy_ids)
    THEN Respond(r, ApplyPolicies(r.prompt, r.intent,
                        [id |-> r.doc._id, name |-> r.doc.name, policies |-> r.policies]))
    ELSE IF ~ObjectIdValid(r.doc.policy_ids[r.idx])
         THEN Raise(r, "InvalidId")
         ELSE [r EXCEPT !.pc = "find_policy"]

\* lines 118-124: the part of the call before its first awaited read
Resolve(r) ==
    IF r.group_id # ""
    THEN IF ObjectIdValid(r.group_id)
         THEN [r EXCEPT !.pc = "find_group"]
         ELSE Raise(r, "InvalidId")
    ELSE IF Truthy(r.group_name)
         THEN [r EXCEPT !.pc = "find_group"]
         ELSE Respond(r, NoGroupBlocked(r.prompt, r.intent))

\* ------------------------------------------------------------------------
\* PromptSanitizationAgent.process up to its first await (sanitizer.py 57-79)
\* ------------------------------------------------------------------------
\* a plausible slip: the oracle call is wrapped in "except: intent = 'safe'"
ProcessOracleErrorIsSafe(r, label) ==
    LET c == [r EXCEPT !.label = IF label = OracleError THEN None ELSE label,
                       !.intent = IF label = OracleError THEN SAFE ELSE Intent(label),
                       !.oracle_calls = r.oracle_calls + 1]
    IN IF c.intent = MALICIOUS
       THEN Respond(c, IntentBlocked(c.prompt, c.intent))
       ELSE Resolve(c)

\* a plausible slip: the classifier is invoked once for the test and once
\* more for the value recorded
ProcessClassifiesTwice(r, label) ==
    IF label = OracleError
    THEN Raise([r EXCEPT !.oracle_calls = r.oracle_calls + 1], "OracleUnavailable")
    ELSE LET c == [r EXCEPT !.label = label, !.intent = Intent(label),
                            !.oracle_calls = r.oracle_calls + 2]
         IN IF c.intent = MALICIOUS
            THEN Respond(c, IntentBlocked(c.prompt, c.intent))
            ELSE Resolve(c)

\* label is what intent_classifier.invoke gives: an answer, or an exception,
\* which nothing in process or in the handlers catches
Process(r, label) ==
    IF label = OracleError
    THEN Raise([r EXCEPT !.oracle_calls = r.oracle_calls + 1], "OracleUnavailable")
    ELSE LET c == [r EXCEPT !.label = label, !.intent = Intent(label),
                            !.oracle_calls = r.oracle_calls + 1]
         IN IF c.intent = MALICIOUS
            THEN Respond(c, IntentBlocked(c.prompt, c.intent))
            ELSE Resolve(c)

\* ------------------------------------------------------------------------
\* Actions
\* ------------------------------------------------------------------------
\* POST /sanitize (main.py 118-132), the body and the oracle's answer drawn
\* from the given sets
SanitizeFrom(c, prompts, payloads, gids, gnames, labels) ==
    /\ requests[c].pc = "idle"
    /\ \E bp \in prompts, payload \in payloads,
          gid \in gids, gname \in gnames, label \in labels :
         LET prompt == IF Truthy(bp) THEN bp
                       ELSE IF payload = Absent THEN <<>> ELSE payload
             r == [requests[c] EXCEPT !.endpoint = "sanitize", !.prompt = prompt,
                                      !.group_id = gid, !.group_name = gname]
         IN requests' = [requests EXCEPT ![c] =
                IF ~Truthy(prompt)
                THEN [r EXCEPT !.pc = "rejected", !.error = "HTTP400"]
                ELSE Process(r, label)]
    /\ UNCHANGED <<policies_collection, groups_collection, firewall_logs, engine,
                   admin, sink>>

Sanitize(c) ==
    SanitizeFrom(c, BodyPrompts, BodyPayloads, BodyGroupIds, BodyGroupNames,
                 OracleOutcomes)

\* POST /chat (main.py 134-157)
Chat(c) ==
    /\ requests[c].pc = "idle"
    /\ \E bp \in BodyPrompts,
          gid \in BodyGroupIds, gname \in BodyGroupNames, label \in OracleOutcomes :
         LET prompt == IF bp = Absent THEN <<>> ELSE bp
             r == [requests[c] EXCEPT !.endpoint = "chat", !.prompt = prompt,
                                      !.group_id = gid, !.group_name = gname]
         IN requests' = [requests EXCEPT ![c] = Process(r, label)]
    /\ UNCHANGED <<policies_collection, groups_collection, firewall_logs, engine,
                   admin, sink>>

\* the awaited groups_collection.find_one(query) returns (lines 127-129)
FindGroup(c) ==
    LET r == requests[c]
        hits == {i \in 1..Len(groups_collection) : GroupMatches(r, groups_collection[i])}
        read == [r EXCEPT !.store_reads = r.store_reads + 1]
    IN /\ r.pc = "find_group"
       /\ requests' = [requests EXCEPT ![c] =
            IF r.group_id = "" /\ ~Compiles(r.group_name)
            THEN Raise(read, "OperationFailure")
            ELSE IF hits = {}
                 THEN Respond(read, NoGroupBlocked(r.prompt, r.intent))
                 ELSE LET first == CHOOSE i \in hits : \A j \in hits : i <= j
                      IN Expand([read EXCEPT !.doc = groups_collection[first],
                                             !.idx = 1, !.policies = <<>>])]
       /\ UNCHANGED <<policies_collection, groups_collection, firewall_logs, engine,
                   admin, sink>>

\* a plausible variant: the expansion leaves inactive policies out
FindPolicySkipsInactive(c) ==
    LET r == requests[c]
        pid == r.doc.policy_ids[r.idx]
        found == pid \in DOMAIN policies_collection
        p == policies_collection[pid]
    IN /\ r.pc = "find_policy"
       /\ requests' = [requests EXCEPT ![c] =
            Expand([r EXCEPT !.store_reads = r.store_reads + 1,
                             !.idx = r.idx + 1,
                             !.policies = IF found /\ p.active
                                          THEN Append(r.policies,
                                                 [id |-> pid, name |-> p.name,
                                                  pattern |-> p.pattern,
                                                  replacement |-> p.replacement,
                                                  active |-> p.active])
                                          ELSE r.policies])]
       /\ UNCHANGED <<policies_collection, groups_collection, firewall_logs, engine,
                   admin, sink>>

\* a plausible slip: policies are served from a cache filled when the
\* service started (the seeded store) instead of the live collection
FindPolicyCached(c) ==
    LET r == requests[c]
        pid == r.doc.policy_ids[r.idx]
        found == pid \in PolicyIds
        p == [name |-> IF pid = "p1" THEN NameDeny ELSE NameMask,
              pattern |-> IF pid = "p1" THEN <<"a">> ELSE <<"b">>,
              replacement |-> IF pid = "p1" THEN <<>> ELSE <<"#">>,
              active |-> TRUE]
    IN /\ r.pc = "find_policy"
       /\ requests' = [requests EXCEPT ![c] =
            Expand([r EXCEPT !.store_reads = r.store_reads + 1,
                             !.idx = r.idx + 1,
                             !.policies = IF found
                                          THEN Append(r.policies,
                                                 [id |-> pid, name |-> p.name,
                                                  pattern |-> p.pattern,
                                                  replacement |-> p.replacement,
                                                  active |-> p.active])
                                          ELSE r.policies])]
       /\ UNCHANGED <<policies_collection, groups_collection, firewall_logs, engine,
                   admin, sink>>

\* a plausible slip: the list being expanded is kept in a field of the one
\* agent object the routes share, so every run in flight sees the append
FindPolicySharedList(c) ==
    LET r == requests[c]
        pid == r.doc.policy_ids[r.idx]
        found == pid \in DOMAIN policies_collection
        p == policies_collection[pid]
        list == IF found
                THEN Append(r.policies,
                            [id |-> pid, name |-> p.name, pattern |-> p.pattern,
                             replacement |-> p.replacement, active |-> p.active])
                ELSE r.policies
    IN /\ r.pc = "find_policy"
       /\ requests' = [d \in DOMAIN requests |->
            IF d = c
            THEN Expand([r EXCEPT !.store_reads = r.store_reads + 1,
                                  !.idx = r.idx + 1, !.policies = list])
            ELSE IF requests[d].pc = "find_policy"
                 THEN [requests[d] EXCEPT !.policies = list]
                 ELSE requests[d]]
       /\ UNCHANGED <<policies_collection, groups_collection, firewall_logs, engine,
                   admin, sink>>

\* a plausible slip: the document is used without the "if p:" test, so an id
\* whose policy is gone raises TypeError
FindPolicyDanglingRaises(c) ==
    LET r == requests[c]
        pid == r.doc.policy_ids[r.idx]
        found == pid \in DOMAIN policies_collection
        p == policies_collection[pid]
        read == [r EXCEPT !.store_reads = r.store_reads + 1]
    IN /\ r.pc = "find_policy"
       /\ requests' = [requests EXCEPT ![c] =
            IF found
            THEN Expand([read EXCEPT !.idx = r.idx + 1,
                                     !.policies = Append(r.policies,
                                         [id |-> pid, name |-> p.name,
                                          pattern |-> p.pattern,
                                          replacement |-> p.replacement,
                                          active |-> p.active])])
            ELSE Raise(read, "TypeError")]
       /\ UNCHANGED <<policies_collection, groups_collection, firewall_logs, engine,
                   admin, sink>>

\* the awaited policies_collection.find_one({"_id": pid}) returns (lines 134-142)
FindPolicy(c) ==
    LET r == requests[c]
        pid == r.doc.policy_ids[r.idx]
        found == pid \in DOMAIN policies_collection
        p == policies_collection[pid]
    IN /\ r.pc = "find_policy"
       /\ requests' = [requests EXCEPT ![c] =
            Expand([r EXCEPT !.store_reads = r.store_reads + 1,
                             !.idx = r.idx + 1,
                             !.policies = IF found
                                          THEN Append(r.policies,
                                                 [id |-> pid, name |-> p.name,
                                                  pattern |-> p.pattern,
                                                  replacement |-> p.replacement,
                                                  active |-> p.active])
                                          ELSE r.policies])]
       /\ UNCHANGED <<policies_collection, groups_collection, firewall_logs, engine,
                   admin, sink>>

\* the response of /chat is iterated: stream_llm calls agent.llm.astream on
\* the text the handler kept (main.py 149-157)
StreamLLM(c) ==
    /\ requests[c].pc = "streaming"
    /\ requests' = [requests EXCEPT ![c] =
            [@ EXCEPT !.pc = "streamed", !.llm_calls = @ + 1]]
    /\ UNCHANGED <<policies_collection, groups_collection, firewall_logs, engine,
                   admin, sink>>

Init ==
    /\ policies_collection \in InitialPolicies
    /\ groups_collection \in InitialGroups
    /\ firewall_logs = <<>>
    /\ requests = [c \in Clients |-> IdleRequest]
    /\ engine = EngineIdle
    /\ admin = AdminIdle
    /\ sink = SinkIdle

Next ==
    \E c \in Clients :
        \/ Sanitize(c)
        \/ Chat(c)
        \/ FindGroup(c)
        \/ FindPolicy(c)
        \/ StreamLLM(c)

Spec == Init /\ [][Next]_vars


\* ------------------------------------------------------------------------
\* The policy engine on its own: process (96-221) on a given prompt and a
\* given resolved group, and once more on the text it returned
\* ------------------------------------------------------------------------
NamePii == <<"p","i","i">>

\* the policies a resolved group may list (as get_group_with_policies returns them)
EngineDocs ==
    { [id |-> "e1", name |-> NameDeny, pattern |-> <<"a","b">>,
       replacement |-> <<>>, active |-> TRUE],
      [id |-> "e2", name |-> NameMask, pattern |-> <<"b">>,
       replacement |-> <<"#">>, active |-> TRUE],
      [id |-> "e3", name |-> NameMask, pattern |-> <<"a","b">>,
       replacement |-> <<"a">>, active |-> TRUE],
      [id |-> "e4", name |-> NamePii, pattern |-> <<"a">>,
       replacement |-> <<"[","B","l","o","c","k","]">>, active |-> TRUE],
      [id |-> "e5", name |-> NameDeny, pattern |-> <<"a">>,
       replacement |-> <<>>, active |-> FALSE],
      [id |-> "e6", name |-> NameMask, pattern |-> <<"(">>,
       replacement |-> <<"#">>, active |-> TRUE],
      [id |-> "e7", name |-> NamePii, pattern |-> <<"A">>,
       replacement |-> <<"#">>, active |-> TRUE],
      [id |-> "e8", name |-> NameMask, pattern |-> <<"b">>,
       replacement |-> <<"#">>, active |-> FALSE],
      [id |-> "e9", name |-> NameMask, pattern |-> <<"a",".">>,
       replacement |-> <<>>, active |-> TRUE] }

\* "B" is matched by the patterns written with "b": re.IGNORECASE
EnginePrompts == SeqsUpTo({"a", "B"}, MaxPromptLen)

InitEngine ==
    /\ policies_collection = <<>>
    /\ groups_collection = <<>>
    /\ firewall_logs = <<>>
    /\ requests = [c \in Clients |-> IdleRequest]
    /\ admin = AdminIdle
    /\ sink = SinkIdle
    /\ \E prompt \in EnginePrompts, policies \in SeqsUpTo(EngineDocs, MaxPolicies) :
         engine = [pc |-> "ready", prompt |-> prompt,
                   group |-> [id |-> "g1", name |-> NameHr, policies |-> policies],
                   first |-> NoDecision, second |-> NoDecision]

\* process is run on the prompt, classified safe, with the resolved group
FirstPass ==
    /\ engine.pc = "ready"
    /\ engine' = [engine EXCEPT !.pc = "first",
                     !.first = ApplyPolicies(engine.prompt, SAFE, engine.group)]
    /\ UNCHANGED <<policies_collection, groups_collection, firewall_logs, requests,
                   admin, sink>>

\* process is run again, on the redacted prompt it returned, with the same group
SecondPass ==
    /\ engine.pc = "first"
    /\ engine.first.status = "redacted"
    /\ engine' = [engine EXCEPT !.pc = "second",
                     !.second = ApplyPolicies(engine.first.redacted_prompt, SAFE, engine.group)]
    /\ UNCHANGED <<policies_collection, groups_collection, firewall_logs, requests,
                   admin, sink>>

NextEngine == FirstPass \/ SecondPass

SpecEngine == InitEngine /\ [][NextEngine]_vars


\* ------------------------------------------------------------------------
\* Vocabulary of the properties
\* ------------------------------------------------------------------------
\* the handler has handed a decision back to the caller
Decided(r) == r.pc \in {"returned", "streaming", "streamed"}

\* the handler is over: a decision, or an exception (HTTP 500)
Finished(r) == r.pc \in {"returned", "streaming", "streamed", "failed"}

\* the label as the oracle meant it: trimmed and lower-cased
Normalised(label) == Lower(Strip(label))

\* the pattern of the policy has a match somewhere in the text
PolicyMatches(p, text) ==
    /\ Compiles(p.pattern)
    /\ \E i \in 1..(Len(text) + 1) : MatchAt(p.pattern, text, i)

StoredActive(p) == p.active

\* no stored group has the id, and none has the name (letter case aside)
NoGroupResolves(r) ==
    /\ \A i \in 1..Len(groups_collection) : groups_collection[i]._id # r.group_id
    /\ \/ ~Truthy(r.group_name)
       \/ \A i \in 1..Len(groups_collection) :
             Lower(groups_collection[i].name) # Lower(r.group_name)

\* the group a finished resolution handed to process
Snapshot(r) == [id |-> r.doc._id, name |-> r.doc.name, policies |-> r.policies]

\* ------------------------------------------------------------------------
\* C1: whenever the oracle's label is "malicious", process returns "blocked"
\* with the intent reason and no redacted prompt, and it has read neither the
\* group nor any policy from the store, whatever the group selector is.
\* ------------------------------------------------------------------------
C1_MaliciousBlockedForIntent ==
    \A c \in Clients :
        LET r == requests[c] IN
        (r.oracle_calls > 0 /\ Normalised(r.label) = MALICIOUS) =>
            /\ r.pc = "returned"
            /\ r.result.status = "blocked"
            /\ r.result.intent = MALICIOUS
            /\ r.result.evidence.reason = "llm_classified_malicious"
            /\ r.result.redacted_prompt = None
            /\ r.result.original_prompt = r.prompt
            /\ r.store_reads = 0
            /\ r.policies = <<>>
            /\ r.result.applied_policies = <<>>
            /\ r.result.evidence.violations = <<>>

\* a malicious prompt with no group selector at all: blocked for intent
C1_Witness ==
    \E c \in Clients :
        /\ requests[c].pc = "returned"
        /\ Normalised(requests[c].label) = MALICIOUS
        /\ requests[c].label # MALICIOUS
        /\ requests[c].group_id = "" /\ requests[c].group_name = None
        /\ requests[c].result.evidence.reason = "llm_classified_malicious"

\* ------------------------------------------------------------------------
\* C2: for a safe prompt, when both selectors are absent or neither resolves
\* to an existing group, process returns "blocked" with the no_group reason
\* and no redacted prompt.
\* ------------------------------------------------------------------------
C2_NoGroupBlocked ==
    \A c \in Clients :
        LET r == requests[c] IN
        (Finished(r) /\ r.intent = SAFE /\ NoGroupResolves(r)) =>
            /\ r.pc = "returned"
            /\ r.result.status = "blocked"
            /\ r.result.evidence.reason = "no_group_found"
            /\ r.result.redacted_prompt = None

\* ------------------------------------------------------------------------
\* C8: when the oracle's label, trimmed and lower-cased, is neither "safe"
\* nor "malicious", the run takes the intent to be "safe", records it in the
\* decision, and goes on to group resolution and policy evaluation: its
\* decision is the one a "safe" label gives.
\* ------------------------------------------------------------------------
C8_UnknownLabelIsSafe ==
    \A c \in Clients :
        LET r == requests[c] IN
        (r.oracle_calls > 0 /\ r.label # None
            /\ Normalised(r.label) \notin {SAFE, MALICIOUS}) =>
            /\ r.intent = SAFE
            /\ r.pc \in {"find_group", "find_policy", "returned", "streaming",
                         "streamed", "failed"}
            /\ Decided(r) =>
                 /\ r.result.intent = SAFE
                 /\ r.result.evidence.reason # "llm_classified_malicious"
                 /\ r.result = IF r.doc = NoGroupDoc
                               THEN NoGroupBlocked(r.prompt, SAFE)
                               ELSE ApplyPolicies(r.prompt, SAFE, Snapshot(r))

\* an unrecognised label, and the run went on to redact under a group
C8_Witness ==
    \E c \in Clients :
        /\ requests[c].pc = "returned"
        /\ Normalised(requests[c].label) \notin {SAFE, MALICIOUS}
        /\ requests[c].store_reads > 1
        /\ requests[c].result.status = "redacted"

\* ------------------------------------------------------------------------
\* C9: every decision handed back by /sanitize or /chat has a log record
\* already written for it.
\* ------------------------------------------------------------------------
C9_DecisionLogged ==
    \A c \in Clients :
        LET r == requests[c] IN
        Decided(r) =>
            \E i \in 1..Len(firewall_logs) :
                /\ firewall_logs[i].payload = r.prompt
                /\ firewall_logs[i].status = r.result.status

\* ------------------------------------------------------------------------
\* C10: at both entry points a missing or empty prompt is rejected before the
\* pipeline: the oracle is not called and process does not run on it.
\* ------------------------------------------------------------------------
C10_EmptyPromptRejected ==
    \A c \in Clients :
        LET r == requests[c] IN
        (r.pc # "idle" /\ ~Truthy(r.prompt)) =>
            /\ r.pc = "rejected"
            /\ r.oracle_calls = 0


\* ------------------------------------------------------------------------
\* Vocabulary of the engine properties
\* ------------------------------------------------------------------------
EnginePolicies == engine.group.policies

\* an active policy that process lists as blocking / as redacting
ActiveBlock(p) == p.active /\ IsBlockPolicy(p)
ActiveRedact(p) == p.active /\ ~IsBlockPolicy(p)

EngineRan == engine.pc \in {"first", "second"}

\* ------------------------------------------------------------------------
\* C3: block wins over redact.  If the prompt matches any active block policy
\* of the group, the outcome is "blocked", there is no redacted prompt and no
\* match in the evidence has action "redact", wherever the block policy sits
\* in the membership order and however many redact policies match too.
\* ------------------------------------------------------------------------
C3_BlockWinsOverRedact ==
    (/\ EngineRan
     /\ \E i \in 1..Len(EnginePolicies) :
           /\ ActiveBlock(EnginePolicies[i])
           /\ PolicyMatches(EnginePolicies[i], engine.prompt))
    => /\ engine.first.status = "blocked"
       /\ engine.first.redacted_prompt = None
       /\ engine.first.evidence.violations # <<>>
       /\ \A k \in 1..Len(engine.first.evidence.violations) :
             engine.first.evidence.violations[k].action = "block"
       /\ \A k \in 1..Len(engine.first.applied_policies) :
             engine.first.applied_policies[k].action = "block"

\* a matching redact policy comes first in the group, a matching block policy after it
C3_Witness ==
    /\ EngineRan
    /\ Len(EnginePolicies) = 2
    /\ ActiveRedact(EnginePolicies[1]) /\ PolicyMatches(EnginePolicies[1], engine.prompt)
    /\ ActiveBlock(EnginePolicies[2]) /\ PolicyMatches(EnginePolicies[2], engine.prompt)
    /\ engine.first.status = "blocked"

\* ------------------------------------------------------------------------
\* C4: if no active policy of the resolved group matches the prompt, process
\* returns "allowed", the redacted prompt is the original prompt and the
\* evidence holds no match.
\* ------------------------------------------------------------------------
C4_NoMatchAllowed ==
    (/\ EngineRan
     /\ \A i \in 1..Len(EnginePolicies) :
           EnginePolicies[i].active => ~PolicyMatches(EnginePolicies[i], engine.prompt))
    => /\ engine.first.status = "allowed"
       /\ engine.first.redacted_prompt = engine.prompt
       /\ engine.first.original_prompt = engine.prompt
       /\ engine.first.evidence.violations = <<>>
       /\ engine.first.applied_policies = <<>>

\* a non-empty prompt, an active policy that does not match it and an
\* inactive one that would
C4_Witness ==
    /\ EngineRan
    /\ engine.prompt # <<>>
    /\ engine.first.status = "allowed"
    /\ \E i, j \in 1..Len(EnginePolicies) :
          /\ EnginePolicies[i].active /\ Compiles(EnginePolicies[i].pattern)
          /\ ~PolicyMatches(EnginePolicies[i], engine.prompt)
          /\ ~EnginePolicies[j].active
          /\ PolicyMatches(EnginePolicies[j], engine.prompt)

C7_InactiveNeverContributes ==
    EngineRan =>
        engine.first = ApplyPolicies(engine.prompt, SAFE,
                          [engine.group EXCEPT !.policies =
                              SelectSeq(EnginePolicies, StoredActive)])

\* an inactive block policy and an inactive redact policy both match the
\* prompt, and the prompt is allowed
C7_Witness ==
    /\ EngineRan
    /\ \E i, j \in 1..Len(EnginePolicies) :
          /\ ~EnginePolicies[i].active /\ IsBlockPolicy(EnginePolicies[i])
          /\ PolicyMatches(EnginePolicies[i], engine.prompt)
          /\ ~EnginePolicies[j].active /\ ~IsBlockPolicy(EnginePolicies[j])
          /\ PolicyMatches(EnginePolicies[j], engine.prompt)
    /\ engine.first.status = "allowed"


\* ------------------------------------------------------------------------
\* Vocabulary of the idempotence property
\* ------------------------------------------------------------------------
\* no policy's pattern has a match inside any policy's replacement token
NoPatternMatchesToken ==
    \A i, j \in 1..Len(EnginePolicies) :
        ~PolicyMatches(EnginePolicies[i], EnginePolicies[j].replacement)

\* every replacement that may be substituted is non-empty, and no character
\* of it can be consumed by any pattern that may be tried
ReplacementsOpaque ==
    \A j \in 1..Len(EnginePolicies) :
        ActiveRedact(EnginePolicies[j]) =>
            /\ EnginePolicies[j].replacement # <<>>
            /\ \A i \in 1..Len(EnginePolicies) :
                  EnginePolicies[i].active =>
                     \A k \in 1..Len(EnginePolicies[i].pattern),
                        m \in 1..Len(EnginePolicies[j].replacement) :
                          ~CharMatches(EnginePolicies[i].pattern[k],
                                       EnginePolicies[j].replacement[m])

\* the second run found nothing: allowed, and the text is as it was given
SecondPassClean ==
    /\ engine.second.status = "allowed"
    /\ engine.second.redacted_prompt = engine.first.redacted_prompt
    /\ engine.second.evidence.violations = <<>>

C11_StreamOnlyRedactedText ==
    \A c \in Clients :
        LET r == requests[c]
        IN /\ (r.pc \in {"streaming", "streamed"} \/ r.llm_calls > 0
                  \/ r.llm_prompt # None) =>
                  /\ r.endpoint = "chat"
                  /\ r.result # NoDecision
                  /\ r.result.status \in {"allowed", "redacted"}
                  /\ r.llm_prompt = r.result.redacted_prompt
           /\ (r.endpoint = "chat" /\ Decided(r) /\ r.result.status = "blocked") =>
                  /\ r.pc = "returned"
                  /\ r.llm_calls = 0
                  /\ r.llm_prompt = None
           /\ (r.endpoint = "chat" /\ Decided(r) /\ r.result.status # "blocked") =>
                  r.pc \in {"streaming", "streamed"}
           /\ r.llm_calls <= 1

\* /chat streamed a text that a redaction had changed
C11_Witness ==
    \E c \in Clients :
        /\ requests[c].pc = "streamed"
        /\ requests[c].llm_calls = 1
        /\ requests[c].result.status = "redacted"
        /\ requests[c].llm_prompt # requests[c].prompt
        /\ requests[c].llm_prompt = requests[c].result.redacted_prompt

\* /chat handed a blocked decision back
C11_WitnessBlocked ==
    \E c \in Clients :
        /\ requests[c].endpoint = "chat"
        /\ requests[c].pc = "returned"
        /\ requests[c].result.status = "blocked"
        /\ requests[c].result.evidence.reason = "policy_violation_blocked"

\* ------------------------------------------------------------------------
\* C12: a failing classification oracle fails the run. When the call of the
\* oracle raises, the failure reaches the caller and there is no decision:
\* the intent is never taken to be 'safe', the store is never read, nothing
\* is streamed, and no status 'allowed' or 'redacted' comes back.
\* ------------------------------------------------------------------------
C12_OracleFailurePropagates ==
    \A c \in Clients :
        LET r == requests[c]
        IN /\ (r.oracle_calls > 0 /\ r.label = None) =>
                  /\ r.pc = "failed"
                  /\ r.error = "OracleUnavailable"
                  /\ r.result = NoDecision
                  /\ r.intent = None
                  /\ r.store_reads = 0
                  /\ r.llm_calls = 0
           /\ Decided(r) => (r.label # None /\ r.intent \in {SAFE, MALICIOUS})

\* the oracle failed on a request that names an existing group by its id
C12_Witness ==
    \E c \in Clients :
        /\ requests[c].pc = "failed"
        /\ requests[c].error = "OracleUnavailable"
        /\ requests[c].oracle_calls = 1
        /\ requests[c].prompt # <<>>
        /\ \E i \in 1..Len(groups_collection) :
              /\ groups_collection[i]._id = requests[c].group_id
              /\ groups_collection[i].policy_ids # <<>>

\* ------------------------------------------------------------------------
\* The store operations (policy_controller.py 43-115, 176-181), each the
\* effect of its one awaited write on the collection it is given. An
\* ObjectId(...) that raises leaves the collection as it was.
\* ------------------------------------------------------------------------
MaxOps == 3

\* ids the store may still issue on insert_one
NewPolicyIds == {"p3"}
NewGroupIds == {"g2"}
\* what a caller may pass where an id is expected
ArgGroupIds == GroupIds \cup MalformedIds
ArgPolicyIds == PolicyIds \cup NewPolicyIds \cup MalformedIds
ArgPolicyLists == SeqsUpTo(PolicyIds \cup MalformedIds, MaxMembers)

\* insert_one / update_one / delete_one on the policies collection
create_policy(pc, id, doc) ==
    [x \in DOMAIN pc \cup {id} |-> IF x = id THEN doc ELSE pc[x]]

update_policy(pc, policy_id, doc) ==
    IF ObjectIdValid(policy_id) /\ policy_id \in DOMAIN pc
    THEN [pc EXCEPT ![policy_id] = doc]
    ELSE pc

delete_policy(pc, policy_id) ==
    IF ObjectIdValid(policy_id)
    THEN [x \in DOMAIN pc \ {policy_id} |-> pc[x]]
    ELSE pc

\* a plausible slip: $push where $addToSet was meant
AddToSetPush(ids, policy_id) == Append(ids, policy_id)

\* {"$addToSet": {"policy_ids": policy_id}}
AddToSet(ids, policy_id) ==
    IF \E i \in 1..Len(ids) : ids[i] = policy_id
    THEN ids
    ELSE Append(ids, policy_id)

\* {"$pull": {"policy_ids": policy_id}}
Pull(ids, policy_id) == SelectSeq(ids, LAMBDA x : x # policy_id)

\* update_one({"_id": ObjectId(group_id)}, {op: {"policy_ids": arg}})
UpdateOneGroup(gc, group_id, op, arg) ==
    IF ObjectIdValid(group_id)
    THEN [i \in 1..Len(gc) |->
            IF gc[i]._id = group_id
            THEN [gc[i] EXCEPT !.policy_ids =
                    CASE op = "$addToSet" -> AddToSet(@, arg)
                      [] op = "$pull" -> Pull(@, arg)
                      [] op = "$set" -> arg]
            ELSE gc[i]]
    ELSE gc

create_group(gc, id, name) ==
    Append(gc, [_id |-> id, name |-> name, policy_ids |-> <<>>])

delete_group(gc, group_id) ==
    IF ObjectIdValid(group_id)
    THEN SelectSeq(gc, LAMBDA d : d._id # group_id)
    ELSE gc

add_policy_to_group(gc, group_id, policy_id) ==
    UpdateOneGroup(gc, group_id, "$addToSet", policy_id)

remove_policy_from_group(gc, group_id, policy_id) ==
    UpdateOneGroup(gc, group_id, "$pull", policy_id)

update_group_policies(gc, group_id, policy_ids) ==
    UpdateOneGroup(gc, group_id, "$set", policy_ids)

\* ------------------------------------------------------------------------
\* SpecStore: the store operations interleaved with a run of the pipeline.
\* It starts from a seeded store (seed_policies.py: one group with its
\* policies attached, here a block and a redact policy).
\* ------------------------------------------------------------------------
\* delete_group's return value: result.deleted_count > 0
delete_group_deleted(gc, group_id) ==
    ObjectIdValid(group_id) /\ \E i \in 1..Len(gc) : gc[i]._id = group_id

SeedPolicies ==
    [x \in PolicyIds |->
        IF x = "p1"
        THEN [name |-> NameDeny, pattern |-> <<"a">>, replacement |-> <<>>,
              active |-> TRUE]
        ELSE [name |-> NameMask, pattern |-> <<"b">>, replacement |-> <<"#">>,
              active |-> TRUE]]
SeedGroups == <<[_id |-> "g1", name |-> NameHr, policy_ids |-> <<"p1", "p2">>]>>
NewGroupNames == {NameHr}
StorePrompts == {<<"a", "b">>}

\* what get_group_with_policies would return were all its reads made at once
\* on collections pc and gc (history only; malformed member ids left out)
AtomicResolution(pc, gc, r) ==
    LET ds == SelectSeq(gc, LAMBDA d : GroupMatches(r, d))
        View(pid) == [id |-> pid, name |-> pc[pid].name, pattern |-> pc[pid].pattern,
                      replacement |-> pc[pid].replacement, active |-> pc[pid].active]
        ids == IF ds = <<>> THEN <<>>
               ELSE SelectSeq(ds[1].policy_ids, LAMBDA x : x \in DOMAIN pc)
    IN [found |-> ds # <<>>, policies |-> [i \in 1..Len(ids) |-> View(ids[i])]]

\* one store operation is made: its write lands
StoreStep(pc, gc, issued) ==
    /\ admin.ops < MaxOps
    /\ policies_collection' = pc
    /\ groups_collection' = gc
    /\ admin' = [ops |-> admin.ops + 1, issued |-> issued,
                 seen |-> [c \in Clients |->
                    IF requests[c].pc = "idle" THEN admin.seen[c]
                    ELSE admin.seen[c] \cup
                         {AtomicResolution(policies_collection, groups_collection,
                                           requests[c])}]]
    /\ UNCHANGED <<firewall_logs, requests, engine, sink>>

CreatePolicy ==
    \E id \in NewPolicyIds \ admin.issued, doc \in StoredDocs :
        StoreStep(create_policy(policies_collection, id, doc), groups_collection,
                  admin.issued \cup {id})

UpdatePolicy ==
    \E pid \in ArgPolicyIds, doc \in StoredDocs :
        StoreStep(update_policy(policies_collection, pid, doc), groups_collection,
                  admin.issued)

DeletePolicy ==
    \E pid \in ArgPolicyIds :
        StoreStep(delete_policy(policies_collection, pid), groups_collection,
                  admin.issued)

CreateGroup ==
    \E id \in NewGroupIds \ admin.issued, name \in NewGroupNames :
        StoreStep(policies_collection, create_group(groups_collection, id, name),
                  admin.issued \cup {id})

\* a plausible slip: deleting a group also deletes the policies it referenced
DeleteGroupCascades ==
    \E gid \in ArgGroupIds :
        StoreStep([pid \in {q \in DOMAIN policies_collection :
                              \A i \in 1..Len(groups_collection) :
                                 groups_collection[i]._id = gid =>
                                   \A k \in 1..Len(groups_collection[i].policy_ids) :
                                      groups_collection[i].policy_ids[k] # q}
                      |-> policies_collection[pid]],
                  delete_group(groups_collection, gid), admin.issued)

DeleteGroup ==
    \E gid \in ArgGroupIds :
        StoreStep(policies_collection, delete_group(groups_collection, gid),
                  admin.issued)

AddPolicyToGroup ==
    \E gid \in ArgGroupIds, pid \in ArgPolicyIds :
        /\ \A i \in 1..Len(groups_collection) :
              Len(groups_collection[i].policy_ids) <= MaxMembers
        /\ StoreStep(policies_collection,
                     add_policy_to_group(groups_collection, gid, pid), admin.issued)

RemovePolicyFromGroup ==
    \E gid \in ArgGroupIds, pid \in ArgPolicyIds :
        StoreStep(policies_collection,
                  remove_policy_from_group(groups_collection, gid, pid), admin.issued)

UpdateGroupPolicies ==
    \E gid \in ArgGroupIds, ids \in ArgPolicyLists :
        StoreStep(policies_collection,
                  update_group_policies(groups_collection, gid, ids), admin.issued)

\* POST /sanitize naming the seeded group, the oracle answering 'safe'
SanitizeGroup(c) ==
    SanitizeFrom(c, StorePrompts, {Absent}, {"g1"}, {None}, {SAFE})

InitStore ==
    /\ policies_collection = SeedPolicies
    /\ groups_collection = SeedGroups
    /\ firewall_logs = <<>>
    /\ requests = [c \in Clients |-> IdleRequest]
    /\ engine = EngineIdle
    /\ admin = AdminIdle
    /\ sink = SinkIdle

\* the store operations alone
NextAdmin ==
    \/ CreatePolicy
    \/ UpdatePolicy
    \/ DeletePolicy
    \/ CreateGroup
    \/ DeleteGroup
    \/ AddPolicyToGroup
    \/ RemovePolicyFromGroup
    \/ UpdateGroupPolicies

SpecAdmin == InitStore /\ [][NextAdmin]_vars

\* the store operations and a run of the pipeline, step by step
NextStore ==
    \/ NextAdmin
    \/ \E c \in Clients :
        \/ SanitizeGroup(c)
        \/ FindGroup(c)
        \/ FindPolicy(c)

SpecStore == InitStore /\ [][NextStore]_vars

\* ------------------------------------------------------------------------
\* C13: group membership is a set. After any sequence of create_group,
\* add_policy_to_group, remove_policy_from_group and update_group_policies no
\* group's policy_ids holds the same policy id twice, and adding a policy
\* that is already in the group leaves policy_ids as it was.
\* ------------------------------------------------------------------------
NoDuplicates(ids) == \A i, j \in 1..Len(ids) : ids[i] = ids[j] => i = j

C13_MembershipIsSet ==
    /\ \A i \in 1..Len(groups_collection) :
          NoDuplicates(groups_collection[i].policy_ids)
    /\ \A i \in 1..Len(groups_collection) :
          \A k \in 1..Len(groups_collection[i].policy_ids) :
              add_policy_to_group(groups_collection, groups_collection[i]._id,
                                  groups_collection[i].policy_ids[k])
                  = groups_collection

\* ------------------------------------------------------------------------
\* C15: every store operation other than creation is idempotent under retry.
\* add_policy_to_group, remove_policy_from_group, update_group_policies and
\* delete_group applied twice with the same arguments leave the store as one
\* application does; the second delete_group differs only in reporting that
\* nothing was deleted.
\* ------------------------------------------------------------------------
C15_RetryIsIdempotent ==
    LET gc == groups_collection
    IN /\ \A gid \in ArgGroupIds, pid \in ArgPolicyIds :
            /\ add_policy_to_group(add_policy_to_group(gc, gid, pid), gid, pid)
                 = add_policy_to_group(gc, gid, pid)
            /\ remove_policy_from_group(remove_policy_from_group(gc, gid, pid), gid, pid)
                 = remove_policy_from_group(gc, gid, pid)
       /\ \A gid \in ArgGroupIds, ids \in ArgPolicyLists :
            update_group_policies(update_group_policies(gc, gid, ids), gid, ids)
                 = update_group_policies(gc, gid, ids)
       /\ \A gid \in ArgGroupIds :
            /\ delete_group(delete_group(gc, gid), gid) = delete_group(gc, gid)
            /\ ~delete_group_deleted(delete_group(gc, gid), gid)

\* add_policy_to_group has put a new member into a group that had members, and
\* making the same call again would change nothing
C15_Witness ==
    \E i \in 1..Len(groups_collection) :
        LET d == groups_collection[i]
        IN /\ Len(d.policy_ids) > 1
           /\ d.policy_ids[Len(d.policy_ids)] = "p3"
           /\ add_policy_to_group(groups_collection, d._id, "p3") = groups_collection
           /\ delete_group_deleted(groups_collection, d._id)

\* ------------------------------------------------------------------------
\* C16: a decision never reflects a torn mix of policy sets. When store
\* updates interleave with the resolution of a run (the group document is
\* read, then each policy by a separate awaited read), the policies the run
\* evaluates are the group's policies as the store held them at one moment
\* of the run: entirely before or entirely after each concurrent update.
\* ------------------------------------------------------------------------
\* the resolutions the store could have given at one moment since the run began
MomentsOfRun(c) ==
    admin.seen[c] \cup
        {AtomicResolution(policies_collection, groups_collection, requests[c])}

C16_NoTornResolution ==
    \A c \in Clients :
        LET r == requests[c]
        IN Decided(r) =>
              [found |-> r.doc # NoGroupDoc, policies |-> r.policies]
                  \in MomentsOfRun(c)

\* ------------------------------------------------------------------------
\* C14: every run of the pipeline whose oracle and store calls return ends in
\* exactly one of the terminal outcomes BLOCKED(intent), BLOCKED(no_group),
\* BLOCKED(policy), REDACTED, ALLOWED. The status of the decision is always
\* one of 'allowed', 'redacted', 'blocked', and no run ends with a decision
\* that is only partly filled in.
\* ------------------------------------------------------------------------
DecisionFields ==
    {"status", "action", "intent", "original_prompt", "redacted_prompt",
     "message", "evidence", "applied_policies"}

\* the terminal outcomes a decision d is an instance of
Outcomes(d) ==
    {o \in {"BLOCKED(intent)", "BLOCKED(no_group)", "BLOCKED(policy)",
            "REDACTED", "ALLOWED"} :
        \/ o = "BLOCKED(intent)" /\ d.status = "blocked"
              /\ d.evidence.reason = "llm_classified_malicious"
        \/ o = "BLOCKED(no_group)" /\ d.status = "blocked"
              /\ d.evidence.reason = "no_group_found"
        \/ o = "BLOCKED(policy)" /\ d.status = "blocked"
              /\ d.evidence.reason = "policy_violation_blocked"
        \/ o = "REDACTED" /\ d.status = "redacted"
        \/ o = "ALLOWED" /\ d.status = "allowed"}

\* the oracle answered and no read of the store failed
CallsReturned(r) ==
    r.oracle_calls > 0 /\ r.label # None /\ r.error # "OperationFailure"

C14_RunEndsInOneOutcome ==
    \A c \in Clients :
        LET r == requests[c]
        IN /\ r.store_reads <= 1 + MaxMembers
           /\ (Finished(r) /\ CallsReturned(r)) =>
                 /\ Decided(r)
                 /\ r.result # NoDecision
                 /\ DecisionFields \subseteq DOMAIN r.result
                 /\ r.result.status \in {"allowed", "redacted", "blocked"}
                 /\ Cardinality(Outcomes(r.result)) = 1

\* ------------------------------------------------------------------------
\* The log sink and the built-in firewall engine (observability.py). A
\* payload is a sequence of words; a word named after a built-in pattern
\* stands for a string that pattern, and no other, matches.
\* ------------------------------------------------------------------------
MaxPayloadLen == 2
MaxLogs == 2

\* FirewallEngine.patterns, in the order of the dict
FirewallPatterns ==
    << [category |-> "pii", names |-> <<"ssn", "email", "phone">>],
       [category |-> "secrets", names |-> <<"api_key", "aws_key", "credit_card">>],
       [category |-> "injection",
        names |-> <<"prompt_injection", "sql_injection", "command_injection">>],
       [category |-> "domains", names |-> <<"malicious">>] >>

\* FirewallEngine.replacements
FirewallReplacement(category) ==
    CASE category = "pii" -> "[REDACTED_PII]"
      [] category = "secrets" -> "[REDACTED_SECRET]"
      [] category = "injection" -> "[REDACTED_INJECTION]"
      [] category = "domains" -> "[REDACTED_DOMAIN]"

PayloadWords == {"hello", "ssn", "email", "prompt_injection"}
Payloads == SeqsUpTo(PayloadWords, MaxPayloadLen)
AgentIds == {"None", "agent-1"}

\* pattern.search(payload) and pattern.sub(replacement, text) on words
WordSearch(name, text) == \E i \in 1..Len(text) : text[i] = name
WordSub(name, replacement, text) ==
    [i \in 1..Len(text) |-> IF text[i] = name THEN replacement ELSE text[i]]

\* the loop over the categories (lines 151-159): the first pattern of a
\* category found in the payload records the category, redacts if the
\* category is pii or secrets, and ends the category
RECURSIVE AnalyzeLoop(_, _, _)
AnalyzeLoop(k, payload, acc) ==
    IF k > Len(FirewallPatterns) THEN acc
    ELSE LET cat == FirewallPatterns[k]
             hits == {j \in 1..Len(cat.names) : WordSearch(cat.names[j], payload)}
         IN IF hits = {} THEN AnalyzeLoop(k + 1, payload, acc)
            ELSE LET j == CHOOSE x \in hits : \A y \in hits : x <= y
                 IN AnalyzeLoop(k + 1, payload,
                      [detected |-> Append(acc.detected, cat.category),
                       sanitized |->
                          IF cat.category \in {"pii", "secrets"}
                          THEN WordSub(cat.names[j], FirewallReplacement(cat.category),
                                       acc.sanitized)
                          ELSE acc.sanitized])

\* FirewallEngine.analyze_payload (lines 146-179)
analyze_payload(payload) ==
    LET acc == AnalyzeLoop(1, payload, [detected |-> <<>>, sanitized |-> payload])
        has(cat) == \E i \in 1..Len(acc.detected) : acc.detected[i] = cat
    IN IF has("injection") \/ has("domains")
       THEN [action |-> "blocked",
             evidence |-> [reason |-> "detected_malicious_content",
                           categories |-> acc.detected],
             sanitized_payload |-> None]
       ELSE IF has("pii") \/ has("secrets")
            THEN [action |-> "redacted",
                  evidence |-> [reason |-> "detected_sensitive_content",
                                categories |-> acc.detected],
                  sanitized_payload |-> acc.sanitized]
            ELSE [action |-> "allowed",
                  evidence |-> [reason |-> "no_threats_detected", categories |-> <<>>],
                  sanitized_payload |-> payload]

\* the row insert_log writes (lines 32-39)
LogRow(agent_id, status, payload, sanitized_payload) ==
    [agent_id |-> agent_id, status |-> status, payload |-> payload,
     sanitized_payload |-> sanitized_payload]

\* process_sanitize_request (lines 185-210): analyse, insert the log row, hand
\* the result back. The INSERT succeeds or raises sqlite3.Error (database
\* locked, disk full, file not writable); the function catches nothing.
ProcessSanitizeRequest ==
    \E payload \in Payloads, agent_id \in AgentIds, inserted \in BOOLEAN :
        LET result == analyze_payload(payload)
            sanitized_payload == IF result.action = "blocked" THEN None
                                 ELSE result.sanitized_payload
        IN /\ Len(firewall_logs) < MaxLogs
           /\ firewall_logs' =
                 IF inserted
                 THEN Append(firewall_logs,
                             LogRow(agent_id, result.action, payload, sanitized_payload))
                 ELSE firewall_logs
           /\ sink' = IF inserted
                      THEN [pc |-> "returned", payload |-> payload,
                            agent_id |-> agent_id, result |-> result,
                            error |-> "none"]
                      ELSE [pc |-> "failed", payload |-> payload,
                            agent_id |-> agent_id, result |-> [action |-> "none"],
                            error |-> "sqlite3.Error"]
           /\ UNCHANGED <<policies_collection, groups_collection, requests, engine,
                          admin>>

InitSink ==
    /\ policies_collection = SeedPolicies
    /\ groups_collection = SeedGroups
    /\ firewall_logs = <<>>
    /\ requests = [c \in Clients |-> IdleRequest]
    /\ engine = EngineIdle
    /\ admin = AdminIdle
    /\ sink = SinkIdle

NextSink == ProcessSanitizeRequest

SpecSink == InitSink /\ [][NextSink]_vars

\* ------------------------------------------------------------------------
\* C17: a failure to persist a log record never changes the decision and
\* never fails the request: when the sink's insert fails, the caller still
\* receives the decision it would have received had the insert succeeded.
\* ------------------------------------------------------------------------
C17_LogFailureIsHarmless ==
    sink.pc # "idle" =>
        /\ sink.pc = "returned"
        /\ sink.error = "none"
        /\ sink.result = analyze_payload(sink.payload)

\* ------------------------------------------------------------------------
\* C18: block policies are evaluated in membership order against the
\* original prompt, and the first one that matches ends the run. The evidence
\* holds every span that first matching block policy matched (text, start,
\* end, action 'block') and no match of any later block policy;
\* applied_policies holds exactly that one policy; the message names it.
\* ------------------------------------------------------------------------
\* the places in the membership order of the active block policies that match
MatchingBlocks ==
    {i \in 1..Len(EnginePolicies) :
        /\ ActiveBlock(EnginePolicies[i])
        /\ PolicyMatches(EnginePolicies[i], engine.prompt)}

\* v records a match of policy p in text: the span, its text, the policy
SpanOf(v, p, text, action) ==
    LET s == v.position[1]
        e == v.position[2]
    IN /\ v.pattern = p.pattern
       /\ v.policy = p.name
       /\ v.action = action
       /\ 0 <= s /\ s < e /\ e <= Len(text)
       /\ e - s = Len(p.pattern)
       /\ MatchAt(p.pattern, text, s + 1)
       /\ v.match = SubSeq(text, s + 1, e)

\* vs holds, from left to right, every span of text that p matches
EverySpan(vs, p, text, action) ==
    /\ \A k \in 1..Len(vs) : SpanOf(vs[k], p, text, action)
    /\ \A k \in 1..(Len(vs) - 1) : vs[k].position[2] <= vs[k + 1].position[1]
    /\ \A i \in 1..Len(text) :
          MatchAt(p.pattern, text, i) =>
              \E k \in 1..Len(vs) :
                  vs[k].position[1] + 1 <= i /\ i <= vs[k].position[2]

C18_FirstMatchingBlockEndsRun ==
    (EngineRan /\ MatchingBlocks # {}) =>
        LET f == CHOOSE i \in MatchingBlocks : \A j \in MatchingBlocks : i <= j
            p == EnginePolicies[f]
            d == engine.first
        IN /\ d.status = "blocked"
           /\ d.original_prompt = engine.prompt
           /\ d.evidence.violations # <<>>
           /\ EverySpan(d.evidence.violations, p, engine.prompt, "block")
           /\ d.applied_policies =
                 <<[name |-> p.name, pattern |-> p.pattern,
                    replacement |-> p.replacement, action |-> "block"]>>
           /\ d.message = <<"Content blocked by policy: ", p.name>>

\* two block policies with different patterns match; the first matches twice
C18_Witness ==
    /\ EngineRan
    /\ Len(EnginePolicies) = 2
    /\ MatchingBlocks = {1, 2}
    /\ EnginePolicies[1].pattern # EnginePolicies[2].pattern
    /\ EnginePolicies[1].name # EnginePolicies[2].name
    /\ engine.first.status = "blocked"
    /\ Len(engine.first.evidence.violations) = 2
    /\ engine.first.applied_policies[1].name = EnginePolicies[1].name

\* ------------------------------------------------------------------------
\* C19: redact policies are applied cumulatively in membership order. The
\* k-th active redact policy is matched against, and substituted into, the
\* text the substitutions of the policies before it produced, never the
\* original prompt; the matches and positions recorded refer to that working
\* text; redacted_prompt is the text after the last substitution.
\* ------------------------------------------------------------------------
\* the active redact policies whose pattern compiles, in membership order
ActiveRedacts ==
    SelectSeq(EnginePolicies, LAMBDA p : ActiveRedact(p) /\ Compiles(p.pattern))

\* the working texts: the prompt, then the text after each of the first k
RECURSIVE WorkingTexts(_)
WorkingTexts(k) ==
    IF k = 0 THEN <<engine.prompt>>
    ELSE LET before == WorkingTexts(k - 1)
         IN Append(before,
                   Sub(ActiveRedacts[k].pattern, ActiveRedacts[k].replacement,
                       before[k]))

\* how many spans the first k of them matched, each in its working text ws[k]
RECURSIVE SpansBefore(_, _)
SpansBefore(ws, k) ==
    IF k = 0 THEN <<0>>
    ELSE LET before == SpansBefore(ws, k - 1)
         IN Append(before,
                   before[k] + Len(FindIter(ActiveRedacts[k].pattern, ws[k])))

C19_RedactionIsCumulative ==
    (EngineRan /\ MatchingBlocks = {}) =>
        LET n == Len(ActiveRedacts)
            d == engine.first
            ws == WorkingTexts(n)
            sb == SpansBefore(ws, n)
            vs == IF d.status = "redacted" THEN d.evidence.violations ELSE <<>>
            hit == {k \in 1..n : sb[k + 1] > sb[k]}
        IN /\ d.status \in {"allowed", "redacted"}
           /\ d.status = "redacted" <=> hit # {}
           /\ d.redacted_prompt = ws[n + 1]
           /\ (d.status = "redacted") =>
                 /\ Len(vs) = sb[n + 1]
                 /\ \A k \in 1..n :
                       EverySpan(SubSeq(vs, sb[k] + 1, sb[k + 1]),
                                 ActiveRedacts[k], ws[k], "redact")
                 /\ Len(d.applied_policies) = Cardinality(hit)
                 /\ \A k \in hit :
                       d.applied_policies[Cardinality({j \in hit : j <= k})] =
                           [name |-> ActiveRedacts[k].name,
                            pattern |-> ActiveRedacts[k].pattern,
                            replacement |-> ActiveRedacts[k].replacement,
                            action |-> "redact"]

\* two redact policies were applied, and the second matched a text that the
\* original prompt does not hold at that place
C19_Witness ==
    /\ EngineRan
    /\ engine.first.status = "redacted"
    /\ Len(engine.first.applied_policies) = 2
    /\ \E k \in 1..Len(engine.first.evidence.violations) :
          LET v == engine.first.evidence.violations[k]
          IN /\ v.pattern = engine.first.applied_policies[2].pattern
             /\ v.match # SubSeq(engine.prompt, v.position[1] + 1, v.position[2])

\* ------------------------------------------------------------------------
\* C20: a policy whose pattern fails to compile is skipped and never aborts
\* the run. The decision is the decision for the same group with that policy
\* removed; all other policies are still evaluated in order; no error
\* reaches the caller.
\* ------------------------------------------------------------------------
\* the group without the policies whose pattern does not compile
CompilableGroup ==
    [engine.group EXCEPT
        !.policies = SelectSeq(@, LAMBDA p : Compiles(p.pattern))]

C20_BadPatternSkipped ==
    EngineRan =>
        /\ engine.first.status \in {"allowed", "redacted", "blocked"}
        /\ engine.first = ApplyPolicies(engine.prompt, SAFE, CompilableGroup)

\* an active policy whose pattern does not compile comes first in the group,
\* and the redact policy after it is applied all the same
C20_Witness ==
    /\ EngineRan
    /\ Len(EnginePolicies) = 2
    /\ EnginePolicies[1].active /\ ~Compiles(EnginePolicies[1].pattern)
    /\ ActiveRedact(EnginePolicies[2]) /\ PolicyMatches(EnginePolicies[2], engine.prompt)
    /\ engine.first.status = "redacted"
    /\ Len(engine.first.applied_policies) = 1
    /\ engine.first.applied_policies[1].pattern = EnginePolicies[2].pattern
    /\ engine.first.redacted_prompt # engine.prompt

\* ------------------------------------------------------------------------
\* C21: the classification oracle is called exactly once per run of the
\* pipeline, before group resolution and before any policy is evaluated, and
\* the intent recorded in the decision is the result of that single call on
\* every path (blocked, redacted, allowed).
\* ------------------------------------------------------------------------
C21_OracleCalledOnce ==
    \A c \in Clients :
        LET r == requests[c]
        IN /\ r.oracle_calls <= 1
           /\ r.pc \notin {"idle", "rejected"} => r.oracle_calls = 1
           /\ (r.store_reads > 0 \/ r.policies # <<>> \/ r.doc # NoGroupDoc) =>
                 r.oracle_calls = 1
           /\ Decided(r) =>
                 /\ r.oracle_calls = 1
                 /\ r.label # None
                 /\ r.result.intent = r.intent
                 /\ r.result.intent =
                       IF Lower(Strip(r.label)) = MALICIOUS THEN MALICIOUS ELSE SAFE

\* a run that read the group and two policies and redacted, on one oracle call
C21_Witness ==
    \E c \in Clients :
        /\ Decided(requests[c])
        /\ requests[c].oracle_calls = 1
        /\ requests[c].store_reads = 3
        /\ requests[c].result.status = "redacted"
        /\ requests[c].result.intent = SAFE
        /\ requests[c].label # SAFE

\* ------------------------------------------------------------------------
\* C22: group resolution (get_group_with_policies) returns only policies
\* with active = true, in the order of the group's stored policy_ids list.
\* ------------------------------------------------------------------------
\* the member ids of the group document whose policy exists, in stored order
ExistingMembers(r) ==
    SelectSeq(r.doc.policy_ids, LAMBDA x : x \in DOMAIN policies_collection)

\* the resolved list follows the stored order of the ids
InStoredOrder(r) ==
    /\ Len(r.policies) <= Len(ExistingMembers(r))
    /\ \E f \in [1..Len(r.policies) -> 1..Len(r.doc.policy_ids)] :
          /\ \A i \in 1..Len(r.policies) : r.doc.policy_ids[f[i]] = r.policies[i].id
          /\ \A i, j \in 1..Len(r.policies) : i < j => f[i] < f[j]

C22_ResolvedOnlyActive ==
    \A c \in Clients :
        LET r == requests[c]
        IN (Decided(r) /\ r.doc # NoGroupDoc) =>
              /\ \A i \in 1..Len(r.policies) : r.policies[i].active
              /\ InStoredOrder(r)

\* as the code has it: resolution returns every existing policy of the group,
\* active or not, each with its active flag, in the stored order of the ids;
\* process then skips the inactive ones, so the decision is the decision for
\* the active policies alone, in that order
C22_ResolvedAllActiveEvaluated ==
    \A c \in Clients :
        LET r == requests[c]
            ids == ExistingMembers(r)
            actives == SelectSeq(r.policies, LAMBDA p : p.active)
        IN (Decided(r) /\ r.doc # NoGroupDoc) =>
              /\ Len(r.policies) = Len(ids)
              /\ \A i \in 1..Len(ids) :
                    /\ r.policies[i].id = ids[i]
                    /\ r.policies[i].active = policies_collection[ids[i]].active
                    /\ r.policies[i].pattern = policies_collection[ids[i]].pattern
              /\ InStoredOrder(r)
              /\ r.result = ApplyPolicies(r.prompt, r.intent,
                                [id |-> r.doc._id, name |-> r.doc.name,
                                 policies |-> actives])

\* resolution returned an inactive policy ahead of an active one, and only
\* the active one was applied
C22_Witness ==
    \E c \in Clients :
        /\ Decided(requests[c])
        /\ Len(requests[c].policies) = 2
        /\ ~requests[c].policies[1].active
        /\ requests[c].policies[2].active
        /\ requests[c].result.status = "redacted"
        /\ Len(requests[c].result.applied_policies) = 1

\* ------------------------------------------------------------------------
\* SpecFresh: store operations are made, each one complete, and then a run
\* of the pipeline starts; no operation lands while the run is under way.
\* ------------------------------------------------------------------------
NoRunStarted == \A c \in Clients : requests[c].pc = "idle"

\* POST /sanitize naming a group by its id, the oracle answering 'safe'
SanitizeAnyGroup(c) ==
    SanitizeFrom(c, StorePrompts, {Absent}, GroupIds, {None}, {SAFE})

NextFresh ==
    \/ NoRunStarted /\ NextAdmin
    \/ \E c \in Clients :
        \/ SanitizeAnyGroup(c)
        \/ FindGroup(c)
        \/ FindPolicy(c)

SpecFresh == InitStore /\ [][NextFresh]_vars

\* ------------------------------------------------------------------------
\* C23: resolution is never cached. After a policy's pattern, replacement or
\* active flag is updated, or a group's membership is changed, every run of
\* the pipeline that starts after the update completes evaluates the updated
\* policy set, for every group referencing that policy.
\* ------------------------------------------------------------------------
\* the group as the store holds it now
LiveGroup(r) == AtomicResolution(policies_collection, groups_collection, r)

C23_RunSeesLiveStore ==
    \A c \in Clients :
        LET r == requests[c]
        IN Decided(r) =>
              /\ (r.doc # NoGroupDoc) = LiveGroup(r).found
              /\ r.policies = LiveGroup(r).policies
              /\ LiveGroup(r).found =>
                    r.result = ApplyPolicies(r.prompt, r.intent,
                                  [id |-> r.doc._id, name |-> r.doc.name,
                                   policies |-> LiveGroup(r).policies])
              /\ ~LiveGroup(r).found =>
                    r.result.evidence.reason = "no_group_found"

\* a second group was created and given policy p1, p1 was then updated into
\* a redact policy, and the run on that group redacts with the new pattern
C23_Witness ==
    \E c \in Clients :
        /\ Decided(requests[c])
        /\ admin.ops = 3
        /\ requests[c].group_id = "g2"
        /\ Len(requests[c].policies) = 1
        /\ requests[c].policies[1].id = "p1"
        /\ requests[c].policies[1].pattern = <<"b">>
        /\ requests[c].policies[1].pattern # SeedPolicies["p1"].pattern
        /\ requests[c].result.status = "redacted"
        /\ requests[c].result.redacted_prompt = <<"a", "#">>

\* ------------------------------------------------------------------------
\* C24: no group operation (create_group, add_policy_to_group,
\* remove_policy_from_group, update_group_policies, delete_group) creates,
\* modifies or deletes any policy document: every step that is one of these
\* operations leaves the policies collection exactly as it was.
\* ------------------------------------------------------------------------
GroupOperation ==
    \/ CreateGroup
    \/ AddPolicyToGroup
    \/ RemovePolicyFromGroup
    \/ UpdateGroupPolicies
    \/ DeleteGroup

C24_GroupOpsLeavePolicies ==
    [][GroupOperation => policies_collection' = policies_collection]_vars

\* the seeded group, which referenced both policies, has been deleted and a
\* new group created holding one of them; both policies are as seeded
C24_Witness ==
    /\ admin.ops = 3
    /\ Len(groups_collection) = 1
    /\ groups_collection[1]._id = "g2"
    /\ groups_collection[1].policy_ids = <<"p1">>
    /\ policies_collection = SeedPolicies

\* ------------------------------------------------------------------------
\* SpecPair: two requests in flight at once against the seeded store; the
\* steps of the two runs interleave at every awaited read.
\* ------------------------------------------------------------------------
Runs == {"c1", "c2"}
PairPrompts == {<<"a", "b">>, <<"h">>} \cup (SeqsUpTo({"b"}, MaxBodyLen) \ {<<>>})

InitPair ==
    /\ policies_collection = SeedPolicies
    /\ groups_collection = SeedGroups
    /\ firewall_logs = <<>>
    /\ requests = [c \in Runs |-> IdleRequest]
    /\ engine = EngineIdle
    /\ admin = AdminIdle
    /\ sink = SinkIdle

SanitizePair(c) ==
    SanitizeFrom(c, PairPrompts, {Absent}, GroupIds, {None}, OracleLabels)

NextPair ==
    \E c \in Runs :
        \/ SanitizePair(c)
        \/ FindGroup(c)
        \/ FindPolicy(c)

SpecPair == InitPair /\ [][NextPair]_vars

\* ------------------------------------------------------------------------
\* C25: the pipeline is a pure function of (prompt, classifier label,
\* resolved group snapshot): two runs given the same three inputs return
\* identical decisions, a run writes no state that another run reads (no
\* field of another run, no store document), and so concurrent runs in any
\* interleaving return the decisions they would return when run alone.
\* ------------------------------------------------------------------------
SameInputs(r, s) ==
    /\ r.prompt = s.prompt
    /\ r.label = s.label
    /\ r.doc = s.doc
    /\ r.policies = s.policies

\* the decision of the run r when no other run exists
DecisionAlone(r) ==
    LET live == AtomicResolution(SeedPolicies, SeedGroups, r)
        doc == SelectSeq(SeedGroups, LAMBDA d : GroupMatches(r, d))
    IN IF Intent(r.label) = MALICIOUS
       THEN IntentBlocked(r.prompt, MALICIOUS)
       ELSE IF ~live.found
            THEN NoGroupBlocked(r.prompt, Intent(r.label))
            ELSE ApplyPolicies(r.prompt, Intent(r.label),
                    [id |-> doc[1]._id, name |-> doc[1].name,
                     policies |-> live.policies])

RunsAgree ==
    \A c, d \in Runs :
        (Decided(requests[c]) /\ Decided(requests[d])
            /\ SameInputs(requests[c], requests[d]))
        => requests[c].result = requests[d].result

RunsAsAlone ==
    \A c \in Runs :
        Decided(requests[c]) => requests[c].result = DecisionAlone(requests[c])

RunWritesOwnStateOnly ==
    \A c \in Runs :
        requests'[c] # requests[c] =>
            /\ \A d \in Runs \ {c} : requests'[d] = requests[d]
            /\ policies_collection' = policies_collection
            /\ groups_collection' = groups_collection

C25_RunsAreIndependent ==
    [](RunsAgree /\ RunsAsAlone) /\ [][RunWritesOwnStateOnly]_vars

\* both runs are decided on the same inputs and both redacted the prompt
C25_Witness ==
    /\ Decided(requests["c1"]) /\ Decided(requests["c2"])
    /\ SameInputs(requests["c1"], requests["c2"])
    /\ requests["c1"].result.status = "redacted"
    /\ requests["c2"].result.status = "redacted"
    /\ requests["c1"].store_reads = 3
    /\ requests["c2"].store_reads = 3

\* ------------------------------------------------------------------------
\* C26: the intent field of every decision is exactly 'safe' or 'malicious',
\* and the reason and message of an intent-blocked decision are fixed strings
\* that do not depend on the text the oracle answered.
\* ------------------------------------------------------------------------
C26_IntentIsBinary ==
    \A c \in Clients :
        LET r == requests[c]
        IN Decided(r) =>
              /\ r.result.intent \in {SAFE, MALICIOUS}
              /\ (r.result.evidence.reason = "llm_classified_malicious")
                    = (r.result.intent = MALICIOUS)
              /\ r.result.intent = MALICIOUS =>
                    /\ r.result.message = <<"Content blocked due to malicious intent">>
                    /\ r.result.evidence.categories = <<"malicious_intent">>
                    /\ r.result.status = "blocked"

\* the oracle answered ' Malicious\n', not the bare word, and the run was
\* blocked on intent
C26_Witness ==
    \E c \in Clients :
        /\ Decided(requests[c])
        /\ requests[c].label # MALICIOUS
        /\ requests[c].result.intent = MALICIOUS
        /\ requests[c].result.evidence.reason = "llm_classified_malicious"

\* the oracle answered 'unsure' and the decision records 'safe'
C26_WitnessDefault ==
    \E c \in Clients :
        /\ Decided(requests[c])
        /\ requests[c].label = <<"u","n","s","u","r","e">>
        /\ requests[c].result.intent = SAFE

\* ------------------------------------------------------------------------
\* C27: action inference partitions the active, compilable policies of the
\* group: a policy is a block policy iff its lower-cased name contains one of
\* block / reject / deny / prevent or its lower-cased replacement contains
\* one of block / reject / deny, and a redact policy otherwise; each such
\* policy is in exactly one of the two lists, and both lists keep the
\* membership order.
\* ------------------------------------------------------------------------
HasWord(words, text) == \E w \in words : Contains(w, Lower(text))

NamedBlocking(p) ==
    \/ HasWord({<<"b","l","o","c","k">>, <<"r","e","j","e","c","t">>,
                <<"d","e","n","y">>, <<"p","r","e","v","e","n","t">>}, p.name)
    \/ HasWord({<<"b","l","o","c","k">>, <<"r","e","j","e","c","t">>,
                <<"d","e","n","y">>}, p.replacement)

\* positions of the group's policies that are active with a compilable pattern
Listed == {i \in 1..Len(EnginePolicies) :
              EnginePolicies[i].active /\ Compiles(EnginePolicies[i].pattern)}

C27_ActionPartition ==
    EngineRan =>
        LET bl == BlockPolicies(EnginePolicies)
            rd == RedactPolicies(EnginePolicies)
        IN /\ bl = SelectSeq(EnginePolicies,
                      LAMBDA p : p.active /\ Compiles(p.pattern) /\ NamedBlocking(p))
           /\ rd = SelectSeq(EnginePolicies,
                      LAMBDA p : p.active /\ Compiles(p.pattern) /\ ~NamedBlocking(p))
           /\ Len(bl) + Len(rd) = Cardinality(Listed)
           /\ \A i \in 1..Len(bl), j \in 1..Len(rd) : bl[i] # rd[j]
           /\ (engine.first.status = "blocked") =
                 (\E i \in Listed : /\ NamedBlocking(EnginePolicies[i])
                                    /\ PolicyMatches(EnginePolicies[i], engine.prompt))
           /\ engine.first.status = "redacted" =>
                 \A k \in 1..Len(engine.first.applied_policies) :
                    \E j \in 1..Len(rd) :
                       rd[j].pattern = engine.first.applied_policies[k].pattern

\* a policy whose name holds no keyword but whose replacement is '[Block]'
\* follows a redact policy: one policy in each list, and the run is blocked
C27_Witness ==
    /\ EngineRan
    /\ Len(EnginePolicies) = 2
    /\ Listed = {1, 2}
    /\ ~NamedBlocking(EnginePolicies[1])
    /\ ~HasWord({KwBlock, KwReject, KwDeny, KwPrevent}, EnginePolicies[2].name)
    /\ HasWord({KwBlock}, EnginePolicies[2].replacement)
    /\ BlockPolicies(EnginePolicies) = <<EnginePolicies[2]>>
    /\ RedactPolicies(EnginePolicies) = <<EnginePolicies[1]>>
    /\ engine.first.status = "blocked"

\* ------------------------------------------------------------------------
\* C28: the shape of a decision. A blocked decision has no redacted_prompt;
\* an allowed decision has redacted_prompt equal to original_prompt and
\* empty violations and applied_policies; a redacted decision has a
\* non-empty applied_policies that holds only redact policies that matched,
\* in membership order, and every violation it lists has action 'redact';
\* original_prompt always equals the prompt the run was given.
\* ------------------------------------------------------------------------
RECURSIVE IsSubsequence(_, _)
IsSubsequence(a, b) ==
    IF a = <<>> THEN TRUE
    ELSE IF b = <<>> THEN FALSE
    ELSE IF Head(a) = Head(b) THEN IsSubsequence(Tail(a), Tail(b))
    ELSE IsSubsequence(a, Tail(b))

\* what applied_policies records of the redact policies among ps, in order
RedactViews(ps) ==
    LET rd == SelectSeq(ps, LAMBDA p : p.active /\ Compiles(p.pattern)
                                          /\ ~NamedBlocking(p))
    IN [i \in 1..Len(rd) |->
           [name |-> rd[i].name, pattern |-> rd[i].pattern,
            replacement |-> rd[i].replacement, action |-> "redact"]]

DecisionShape(d, prompt, ps) ==
    /\ d.original_prompt = prompt
    /\ d.status \in {"blocked", "allowed", "redacted"}
    /\ d.status = "blocked" => d.redacted_prompt = None
    /\ d.status = "allowed" =>
          /\ d.redacted_prompt = d.original_prompt
          /\ d.evidence.violations = <<>>
          /\ d.applied_policies = <<>>
    /\ d.status = "redacted" =>
          /\ d.applied_policies # <<>>
          /\ IsSubsequence(d.applied_policies, RedactViews(ps))
          /\ \A k \in 1..Len(d.applied_policies) :
                \E v \in 1..Len(d.evidence.violations) :
                   /\ d.evidence.violations[v].pattern = d.applied_policies[k].pattern
                   /\ d.evidence.violations[v].policy = d.applied_policies[k].name
          /\ \A v \in 1..Len(d.evidence.violations) :
                d.evidence.violations[v].action = "redact"

C28_DecisionShape ==
    \A c \in Clients :
        Decided(requests[c]) =>
            DecisionShape(requests[c].result, requests[c].prompt, requests[c].policies)

\* a run redacted with the second policy of its group, the first being a
\* block policy that did not match
C28_Witness ==
    \E c \in Clients :
        /\ Decided(requests[c])
        /\ requests[c].result.status = "redacted"
        /\ Len(requests[c].policies) = 2
        /\ NamedBlocking(requests[c].policies[1]) /\ requests[c].policies[1].active
        /\ Len(requests[c].result.applied_policies) = 1
        /\ requests[c].result.applied_policies[1].pattern = requests[c].policies[2].pattern
        /\ requests[c].result.redacted_prompt # requests[c].result.original_prompt

\* the same shape on the decisions of SpecEngine, whose groups hold several
\* redact policies
EngineDecisionShape ==
    /\ EngineRan => DecisionShape(engine.first, engine.prompt, EnginePolicies)
    /\ engine.pc = "second" =>
          DecisionShape(engine.second, engine.first.redacted_prompt, EnginePolicies)

EngineDecisionShapeWitness ==
    /\ EngineRan
    /\ engine.first.status = "redacted"
    /\ Len(engine.first.applied_policies) = 2
    /\ engine.first.applied_policies[1] # engine.first.applied_policies[2]

\* ------------------------------------------------------------------------
\* C29: the group id takes precedence over the group name. When a group id
\* is supplied, resolution looks up by id only and ignores the name, so a
\* supplied id that matches no group yields no group (and a no_group block)
\* even when the name names an existing group; the name is used, as a
\* case-insensitive whole-string match, only when no id is supplied.
\* ------------------------------------------------------------------------
\* positions of the stored groups the selector of r designates
GroupsById(r) ==
    {i \in 1..Len(groups_collection) : groups_collection[i]._id = r.group_id}

GroupsByName(r) ==
    {i \in 1..Len(groups_collection) :
        Truthy(r.group_name) /\ Lower(groups_collection[i].name) = Lower(r.group_name)}

Designated(r) == IF r.group_id # "" THEN GroupsById(r) ELSE GroupsByName(r)

\* the run resolved its group as the precedence rule says
ResolvedByPrecedence(r) ==
    /\ Designated(r) = {} =>
          /\ r.pc = "returned"
          /\ r.result.status = "blocked"
          /\ r.result.evidence.reason = "no_group_found"
          /\ r.doc = NoGroupDoc
    /\ Designated(r) # {} =>
          /\ r.doc = groups_collection[CHOOSE i \in Designated(r) :
                                          \A j \in Designated(r) : i <= j]
          /\ Decided(r) => r.result.evidence.reason # "no_group_found"

C29_IdTakesPrecedence ==
    \A c \in Clients :
        LET r == requests[c]
        IN (Finished(r) /\ r.intent = SAFE) => ResolvedByPrecedence(r)

\* the selector is an id ObjectId accepts, or a name of letters only
PlainSelector(r) ==
    IF r.group_id # "" THEN ObjectIdValid(r.group_id)
    ELSE \/ ~Truthy(r.group_name)
         \/ \A k \in 1..Len(r.group_name) : r.group_name[k] \notin {".", "("}

\* the rule holds for every run with such a selector
C29_PrecedencePlainSelector ==
    \A c \in Clients :
        LET r == requests[c]
        IN (Finished(r) /\ r.intent = SAFE /\ PlainSelector(r)) =>
              ResolvedByPrecedence(r)

\* an id that matches no group was supplied with the name of the stored
\* group, and the run was blocked for want of a group
C29_WitnessIdWins ==
    \E c \in Clients :
        /\ requests[c].pc = "returned"
        /\ requests[c].group_id = "g2"
        /\ GroupsByName(requests[c]) # {}
        /\ requests[c].result.evidence.reason = "no_group_found"

\* no id was supplied and the name, in another letter case, found the group
C29_WitnessNameUsed ==
    \E c \in Clients :
        /\ Decided(requests[c])
        /\ requests[c].group_id = ""
        /\ requests[c].group_name # requests[c].doc.name
        /\ GroupsByName(requests[c]) # {}
        /\ requests[c].result.status = "redacted"

\* the runs on which the rule fails
C29_MalformedIdRaises ==
    \E c \in Clients :
        /\ requests[c].pc = "failed" /\ requests[c].error = "InvalidId"
        /\ requests[c].group_id = "zz"
        /\ GroupsById(requests[c]) = {}
        /\ GroupsByName(requests[c]) # {}

C29_NameIsPattern ==
    \E c \in Clients :
        /\ Decided(requests[c])
        /\ requests[c].group_id = ""
        /\ requests[c].group_name = <<"h", ".">>
        /\ requests[c].doc.name = NameHr
        /\ requests[c].result.status \in {"allowed", "redacted"}

\* ------------------------------------------------------------------------
\* C30: a group may hold ids of policies that no longer exist (delete_policy
\* does not touch groups); resolution skips every such dangling id without
\* error, so after any sequence of store operations the resolved policy list
\* contains only existing policies and a deleted policy never affects a
\* later decision.
\* ------------------------------------------------------------------------
\* the ids the group document of r holds whose policy is not in the store
DanglingIds(r) ==
    {r.doc.policy_ids[k] : k \in 1..Len(r.doc.policy_ids)}
        \ (DOMAIN policies_collection \cup MalformedIds)

\* the stored group of r with every id that is not an existing policy removed
WithoutDangling(r) ==
    LET ids == ExistingMembers(r)
    IN [id |-> r.doc._id, name |-> r.doc.name,
        policies |-> [i \in 1..Len(ids) |->
            [id |-> ids[i], name |-> policies_collection[ids[i]].name,
             pattern |-> policies_collection[ids[i]].pattern,
             replacement |-> policies_collection[ids[i]].replacement,
             active |-> policies_collection[ids[i]].active]]]

C30_DanglingIdsSkipped ==
    \A c \in Clients :
        LET r == requests[c]
        IN /\ \A i \in 1..Len(r.policies) :
                 r.policies[i].id \in DOMAIN policies_collection
           /\ r.pc = "failed" =>
                 /\ r.error = "InvalidId"
                 /\ r.doc.policy_ids[r.idx] \in MalformedIds
           /\ (Decided(r) /\ r.doc # NoGroupDoc) =>
                 /\ r.policies = WithoutDangling(r).policies
                 /\ r.result = ApplyPolicies(r.prompt, r.intent, WithoutDangling(r))

\* the block policy p1 was deleted while the group still lists it; the run
\* on that group skipped it and redacted with the policy that is left
C30_Witness ==
    \E c \in Clients :
        /\ Decided(requests[c])
        /\ "p1" \in DanglingIds(requests[c])
        /\ requests[c].doc.policy_ids = <<"p1", "p2">>
        /\ Len(requests[c].policies) = 1
        /\ requests[c].policies[1].id = "p2"
        /\ requests[c].result.status = "redacted"
        /\ requests[c].store_reads = 3

=============================================================================
